---- MODULE Spec2Model ----
(***************************************************************************)
(* Model of verification/verify_sources.py: run() drives a headless        *)
(* browser to the sources page, waits for the "Data Sources" heading,      *)
(* saves a full-page screenshot and prints status lines.                   *)
(*                                                                         *)
(* Every call into the browser library is one action whose outcome (it     *)
(* returns, it raises a library error, it is interrupted) is an input;     *)
(* entering and leaving the with block are such calls too.                 *)
(* Python's try/except/finally/with unwinding is the operator Handler.     *)
(***************************************************************************)
EXTENDS Naturals, Sequences, FiniteSets

VARIABLES
    pc,        \* statement of the script about to execute
    run,       \* which invocation of the script this is (1, 2, ...)
    trace,     \* calls made into the library in this run, with their outcomes
    out,       \* lines printed to standard output in this run
    pending,   \* exception in flight (kind "none" when there is none)
    browser,   \* "none" | "open" | "closed" : the handle of line 5 / line 26
    session,   \* "none" | "active" | "stopped" : the with-block's playwright
    files,     \* paths present under verification/ (survives across runs)
    writes,    \* number of times this run wrote the artifact
    raised,    \* exception that escaped run() (kind "none" if it returned)
    exitCode,  \* exit status of the process, meaningful when pc = "done"
    prevOut,   \* lines the previous invocation printed (<<>> in the first)
    written    \* number of times any invocation has written the artifact

vars == <<pc, run, trace, out, pending, browser, session, files, writes,
          raised, exitCode, prevOut, written>>

\* Number of successive invocations of the script that are explored.
MaxRuns == 2

----------------------------------------------------------------------------
\* Literals of the script.

OutputPath == "verification/sources_page.png"
HeadingWarning == "Heading not found, page might be erroring due to DB"
ScreenshotTaken == "Screenshot taken"
ErrorLine(msg) == "Error: " \o msg

----------------------------------------------------------------------------
\* Outcomes of a library call.  "error" is an exception that is an instance
\* of Exception (playwright's Error and TimeoutError are); "interrupt" is one
\* that is not (KeyboardInterrupt), which only a bare except clause catches.

Descriptions == {"net::ERR_CONNECTION_REFUSED", "Target closed"}

NoExc == [kind |-> "none", msg |-> ""]
Ok == [kind |-> "ok", msg |-> ""]
Errors == [kind : {"error"}, msg : Descriptions]
Interrupt == [kind |-> "interrupt", msg |-> ""]
Outcomes == {Ok} \cup Errors \cup {Interrupt}

IsException(e) == e.kind = "error"

PageOps == {"goto", "wait", "screenshot"}

----------------------------------------------------------------------------
\* Control flow.

\* Variants of After, each the control flow a misplaced statement would give.

\* The screenshot call moved inside the inner try: skipped once the wait fails.
AfterWarnSkipsScreenshot(site) ==
    CASE site = "enter"      -> "launch"
      [] site = "launch"     -> "new_page"
      [] site = "new_page"   -> "goto"
      [] site = "goto"       -> "wait"
      [] site = "wait"       -> "screenshot"
      [] site = "warn"       -> "close"
      [] site = "screenshot" -> "taken"
      [] site = "taken"      -> "close"
      [] site = "error"      -> "close"
      [] site = "close"      -> "exit_with"
      [] site = "exit_with"  -> "end"
      [] site = "end"        -> "done"

\* The confirmation line left out.
AfterNoConfirmation(site) ==
    CASE site = "enter"      -> "launch"
      [] site = "launch"     -> "new_page"
      [] site = "new_page"   -> "goto"
      [] site = "goto"       -> "wait"
      [] site = "wait"       -> "screenshot"
      [] site = "warn"       -> "screenshot"
      [] site = "screenshot" -> "close"
      [] site = "taken"      -> "close"
      [] site = "error"      -> "close"
      [] site = "close"      -> "exit_with"
      [] site = "exit_with"  -> "end"
      [] site = "end"        -> "done"

\* The wait placed before the navigation.
AfterWaitBeforeGoto(site) ==
    CASE site = "enter"      -> "launch"
      [] site = "launch"     -> "new_page"
      [] site = "new_page"   -> "wait"
      [] site = "wait"       -> "goto"
      [] site = "warn"       -> "goto"
      [] site = "goto"       -> "screenshot"
      [] site = "screenshot" -> "taken"
      [] site = "taken"      -> "close"
      [] site = "error"      -> "close"
      [] site = "close"      -> "exit_with"
      [] site = "exit_with"  -> "end"
      [] site = "end"        -> "done"

\* The confirmation line printed before the screenshot call instead of after.
AfterConfirmationFirst(site) ==
    CASE site = "enter"      -> "launch"
      [] site = "launch"     -> "new_page"
      [] site = "new_page"   -> "goto"
      [] site = "goto"       -> "wait"
      [] site = "wait"       -> "taken"
      [] site = "warn"       -> "taken"
      [] site = "taken"      -> "screenshot"
      [] site = "screenshot" -> "close"
      [] site = "error"      -> "close"
      [] site = "close"      -> "exit_with"
      [] site = "exit_with"  -> "end"
      [] site = "end"        -> "done"

\* The statement that follows `site` when it completes without raising.
After(site) ==
    CASE site = "enter"      -> "launch"
      [] site = "launch"     -> "new_page"
      [] site = "new_page"   -> "goto"
      [] site = "goto"       -> "wait"
      [] site = "wait"       -> "screenshot"
      [] site = "warn"       -> "screenshot"
      [] site = "screenshot" -> "taken"
      [] site = "taken"      -> "close"
      [] site = "error"      -> "close"
      [] site = "close"      -> "exit_with"
      [] site = "exit_with"  -> "end"
      [] site = "end"        -> "done"

\* Variants of Handler, each the unwinding a different block structure gives.

\* No with block: an exception outside the try leaves run() at once.
HandlerNoWith(site, exc) ==
    CASE site = "enter" -> "end"
      [] site \in {"launch", "new_page", "close"} -> "end"
      [] site = "exit_with" -> "end"
      [] site = "wait" -> "warn"
      [] site \in {"goto", "screenshot"} ->
            IF IsException(exc) THEN "error" ELSE "close"

\* No inner try: a failed wait is handled like a failed goto.
HandlerNoInnerTry(site, exc) ==
    CASE site = "enter" -> "end"
      [] site \in {"launch", "new_page", "close"} -> "exit_with"
      [] site = "exit_with" -> "end"
      [] site \in {"goto", "wait", "screenshot"} ->
            IF IsException(exc) THEN "error" ELSE "close"

\* A failed navigation is attempted again.
HandlerRetryGoto(site, exc) ==
    CASE site = "enter" -> "end"
      [] site \in {"launch", "new_page", "close"} -> "exit_with"
      [] site = "exit_with" -> "end"
      [] site = "wait" -> "warn"
      [] site = "goto" -> "goto"
      [] site = "screenshot" ->
            IF IsException(exc) THEN "error" ELSE "close"

\* Where control goes when the call at `site` raises exc.
Handler(site, exc) ==
    CASE site = "enter" -> "end"
      [] site \in {"launch", "new_page", "close"} -> "exit_with"
      [] site = "exit_with" -> "end"
      [] site = "wait" -> "warn"
      [] site \in {"goto", "screenshot"} ->
            IF IsException(exc) THEN "error" ELSE "close"

\* A call at `site` with outcome o: record it, then continue or unwind.
Call(site, o) ==
    /\ trace' = Append(trace, [op |-> site, result |-> o])
    /\ IF o = Ok
          THEN /\ pc' = After(site)
               /\ pending' = pending
          ELSE /\ pc' = Handler(site, o)
               /\ pending' = o

----------------------------------------------------------------------------
Init ==
    /\ pc = "enter"
    /\ run = 1
    /\ trace = <<>>
    /\ out = <<>>
    /\ pending = NoExc
    /\ browser = "none"
    /\ session = "none"
    /\ files \in SUBSET {OutputPath}
    /\ writes = 0
    /\ raised = NoExc
    /\ exitCode = 0
    /\ prevOut = <<>>
    /\ written = 0

\* line 4: with sync_playwright() as p  (entering the block)
EnterPlaywright ==
    /\ pc = "enter"
    /\ \E o \in Outcomes :
          /\ Call("enter", o)
          /\ session' = IF o = Ok THEN "active" ELSE session
    /\ UNCHANGED <<run, out, browser, files, writes, raised, exitCode, prevOut,
                   written>>

\* line 5: browser = p.chromium.launch(headless=True)
Launch ==
    /\ pc = "launch"
    /\ \E o \in Outcomes :
          /\ Call("launch", o)
          /\ browser' = IF o = Ok THEN "open" ELSE browser
    /\ UNCHANGED <<run, out, session, files, writes, raised, exitCode, prevOut,
                   written>>

\* line 6: page = browser.new_page()
NewPage ==
    /\ pc = "new_page"
    /\ \E o \in Outcomes : Call("new_page", o)
    /\ UNCHANGED <<run, out, browser, session, files, writes, raised, exitCode,
                   prevOut, written>>

\* line 10: page.goto("http://localhost:3000/dashboard/sources")
Goto ==
    /\ pc = "goto"
    /\ \E o \in Outcomes : Call("goto", o)
    /\ UNCHANGED <<run, out, browser, session, files, writes, raised, exitCode,
                   prevOut, written>>

\* line 15: page.wait_for_selector("h1:has-text('Data Sources')", timeout=10000)
WaitForSelector ==
    /\ pc = "wait"
    /\ \E o \in Outcomes : Call("wait", o)
    /\ UNCHANGED <<run, out, browser, session, files, writes, raised, exitCode,
                   prevOut, written>>

\* lines 16-17: except: print(HeadingWarning)
PrintHeadingNotFound ==
    /\ pc = "warn"
    /\ out' = Append(out, HeadingWarning)
    /\ pending' = NoExc
    /\ pc' = After("warn")
    /\ UNCHANGED <<run, trace, browser, session, files, writes, raised, exitCode,
                   prevOut, written>>

\* Variant of ScreenshotPath: one file per invocation.
ScreenshotPathPerRun(r) == IF r = 1 THEN OutputPath ELSE OutputPath \o ".new"

\* The path the screenshot of this run is written to.
ScreenshotPath(r) == OutputPath

\* line 20: page.screenshot(path=OutputPath, full_page=True)
Screenshot ==
    /\ pc = "screenshot"
    /\ \E o \in Outcomes :
          /\ Call("screenshot", o)
          /\ files' = IF o = Ok THEN files \cup {ScreenshotPath(run)} ELSE files
          /\ writes' = IF o = Ok THEN writes + 1 ELSE writes
          /\ written' = IF o = Ok THEN written + 1 ELSE written
    /\ UNCHANGED <<run, out, browser, session, raised, exitCode, prevOut>>

\* line 21: print("Screenshot taken")
PrintScreenshotTaken ==
    /\ pc = "taken"
    /\ out' = Append(out, ScreenshotTaken)
    /\ pc' = After("taken")
    /\ UNCHANGED <<run, trace, pending, browser, session, files, writes, raised,
                   exitCode, prevOut, written>>

\* lines 23-24: except Exception as e: print(f"Error: {e}")
PrintError ==
    /\ pc = "error"
    /\ out' = Append(out, ErrorLine(pending.msg))
    /\ pending' = NoExc
    /\ pc' = After("error")
    /\ UNCHANGED <<run, trace, browser, session, files, writes, raised, exitCode,
                   prevOut, written>>

\* lines 25-26: finally: browser.close()
\* An exception raised here replaces the one in flight, if any.
CloseBrowser ==
    /\ pc = "close"
    /\ \E o \in Outcomes :
          /\ Call("close", o)
          /\ browser' = IF o = Ok THEN "closed" ELSE browser
    /\ UNCHANGED <<run, out, session, files, writes, raised, exitCode, prevOut,
                   written>>

\* line 4: leaving the with block (normally or with an exception in flight)
\* calls the context manager's __exit__, which stops the playwright session.
\* When it returns, the exception in flight, if any, goes on; when it raises
\* or is interrupted, its exception replaces the one in flight and the
\* session is not known to have been stopped.
ExitPlaywright ==
    /\ pc = "exit_with"
    /\ \E o \in Outcomes :
          /\ Call("exit_with", o)
          /\ session' = IF o = Ok THEN "stopped" ELSE session
    /\ UNCHANGED <<run, out, browser, files, writes, raised, exitCode, prevOut,
                   written>>

\* Exit status of the interpreter when run() ends with exc in flight: 0 when
\* it returned, 1 after the traceback of an uncaught Exception, and death by
\* SIGINT (130 as a shell reports it) after an uncaught KeyboardInterrupt.
ExitStatus(exc) ==
    IF exc.kind = "none" THEN 0
    ELSE IF exc.kind = "error" THEN 1
    ELSE 130

\* lines 28-29: run() returns to, or raises into, the module's top level.
ProcessExit ==
    /\ pc = "end"
    /\ raised' = pending
    /\ exitCode' = ExitStatus(pending)
    /\ pc' = After("end")
    /\ UNCHANGED <<run, trace, out, pending, browser, session, files, writes,
                   prevOut, written>>

\* The script is started again: a new process, the same working directory.
NextRun ==
    /\ pc = "done"
    /\ run < MaxRuns
    /\ run' = run + 1
    /\ pc' = "enter"
    /\ trace' = <<>>
    /\ out' = <<>>
    /\ pending' = NoExc
    /\ browser' = "none"
    /\ session' = "none"
    /\ writes' = 0
    /\ raised' = NoExc
    /\ exitCode' = 0
    /\ prevOut' = out
    /\ UNCHANGED <<files, written>>

Next ==
    \/ EnterPlaywright
    \/ Launch
    \/ NewPage
    \/ Goto
    \/ WaitForSelector
    \/ PrintHeadingNotFound
    \/ Screenshot
    \/ PrintScreenshotTaken
    \/ PrintError
    \/ CloseBrowser
    \/ ExitPlaywright
    \/ ProcessExit
    \/ NextRun

Spec == Init /\ [][Next]_vars

----------------------------------------------------------------------------
\* Vocabulary of the properties.

Calls(op) == {i \in DOMAIN trace : trace[i].op = op}
Count(op) == Cardinality(Calls(op))
Called(op) == Calls(op) # {}
Succeeded(op) == \E i \in Calls(op) : trace[i].result = Ok
Raised(op) == \E i \in Calls(op) : trace[i].result # Ok
Failed(op) == \E i \in Calls(op) : trace[i].result.kind = "error"
FailedWith(op, d) == \E i \in Calls(op) : trace[i].result = [kind |-> "error", msg |-> d]

ErrorLines == {ErrorLine(d) : d \in Descriptions}
Printed(line) == \E i \in DOMAIN out : out[i] = line
ErrorCount == Cardinality({i \in DOMAIN out : out[i] \in ErrorLines})

\* The try statement of lines 7-24 has been left (finally is next or done).
PastTry == pc \in {"close", "exit_with", "end", "done"}
\* run() has ended.
Finished == pc \in {"end", "done"}

\* Position of each call in the order open -> navigate -> wait -> screenshot
\* -> close, followed by the exit of the with block.
Rank(op) ==
    CASE op = "enter"      -> 1
      [] op = "launch"     -> 2
      [] op = "new_page"   -> 3
      [] op = "goto"       -> 4
      [] op = "wait"       -> 5
      [] op = "screenshot" -> 6
      [] op = "close"      -> 7
      [] op = "exit_with"  -> 8

\* The lines a run prints, as a function of the outcomes of its own calls.
OutputOf(t) ==
    LET At(op) == {i \in DOMAIN t : t[i].op = op}
        Res(op) == IF At(op) = {} THEN NoExc ELSE t[CHOOSE i \in At(op) : TRUE].result
        Closing(r) == IF r = Ok THEN <<ScreenshotTaken>>
                   ELSE IF r.kind = "error" THEN <<ErrorLine(r.msg)>>
                   ELSE <<>>
    IN  IF Res("goto") = Ok
           THEN (IF Res("wait") = Ok THEN <<>> ELSE <<HeadingWarning>>)
                \o Closing(Res("screenshot"))
        ELSE IF Res("goto").kind = "error" THEN <<ErrorLine(Res("goto").msg)>>
        ELSE <<>>

----------------------------------------------------------------------------
\* C1: if new_page, goto or screenshot raises an exception, it is caught at
\* the top level, exactly one "Error: <description>" line is printed and
\* run() returns without raising to its caller.
C1_StepExceptionsCaught ==
    (pc = "done" /\ \E op \in {"new_page", "goto", "screenshot"} : Failed(op))
        => (raised = NoExc /\ ErrorCount = 1)

\* C2: on every exit path of run() after the browser was launched, the
\* release has been carried out by the time run() ends: the exit of the with
\* block was called, and browser.close() too once new_page had returned;
\* the session is stopped when that exit returned and the browser is closed
\* when browser.close() returned.  In particular, after normal completion or
\* a failure of new_page, goto, the wait or the screenshot, the browser is
\* closed or the session is stopped.
C2_BrowserReleased ==
    (Finished /\ Succeeded("launch")) =>
        /\ Called("exit_with")
        /\ Succeeded("new_page") => Called("close")
        /\ Succeeded("close") => browser = "closed"
        /\ ~Raised("exit_with") => session = "stopped"
        /\ (\A i \in DOMAIN trace :
               trace[i].result # Ok =>
                  trace[i].op \in {"new_page", "goto", "wait", "screenshot"})
              => (browser = "closed" \/ session = "stopped")

\* C2 witness: new_page failed after a successful launch, so browser.close()
\* was never called, and the session was stopped on the way out.
C2_Witness ==
    /\ pc = "done"
    /\ Succeeded("launch")
    /\ Failed("new_page")
    /\ ~Called("close")
    /\ browser = "open"
    /\ session = "stopped"

\* C3: whatever combination of launch, new_page, goto, wait, screenshot and
\* close fails, the process ends with exit status 0 and no uncaught exception.
C3_AlwaysExitsZero ==
    (/\ pc = "done"
     /\ \A i \in DOMAIN trace :
           trace[i].result # Ok =>
              /\ trace[i].result.kind = "error"
              /\ trace[i].op \in {"launch", "new_page", "goto", "wait",
                                  "screenshot", "close"})
        => (exitCode = 0 /\ raised = NoExc)

\* C4: when navigation succeeded and the wait for the heading raised, the
\* warning line is printed and nothing else up to the screenshot, the
\* screenshot is then attempted, no "Error:" line appears unless the
\* screenshot itself fails, and with a successful screenshot the output is
\* the warning followed by "Screenshot taken".
C4_WaitFailureSwallowed ==
    (Succeeded("goto") /\ Raised("wait")) =>
        /\ pc = "warn" => out = <<>>
        /\ pc = "screenshot" => (out = <<HeadingWarning>> /\ pending = NoExc)
        /\ PastTry => (Called("screenshot") /\ Len(out) >= 1 /\ out[1] = HeadingWarning)
        /\ ~Failed("screenshot") => ErrorCount = 0
        /\ (PastTry /\ Succeeded("screenshot"))
              => out = <<HeadingWarning, ScreenshotTaken>>

\* C4 witness: the wait timed out, the screenshot succeeded, the run is over.
C4_Witness ==
    /\ pc = "done"
    /\ Succeeded("goto")
    /\ Failed("wait")
    /\ Succeeded("screenshot")
    /\ out = <<HeadingWarning, ScreenshotTaken>>
    /\ exitCode = 0

\* C5 as stated: in every run that reaches the navigation, whatever its
\* outcome and that of the wait (success or library error), the screenshot
\* is attempted exactly once.
C5_ScreenshotOncePerRun ==
    (/\ pc = "done"
     /\ Called("goto")
     /\ \A i \in DOMAIN trace : trace[i].result.kind \in {"ok", "error"})
        => Count("screenshot") = 1

\* C5 amended: in every run in which navigation succeeds, whatever the
\* outcome of the wait, the screenshot is attempted exactly once, and the
\* artifact is written exactly once if that attempt succeeds and not at all
\* otherwise; in a run in which navigation raises, the screenshot is not
\* attempted and nothing is written.
C5_ScreenshotOnceAfterNavigation ==
    /\ Count("screenshot") <= 1
    /\ writes <= 1
    /\ (PastTry /\ Succeeded("goto")) => Count("screenshot") = 1
    /\ PastTry => (writes = 1 <=> Succeeded("screenshot"))
    /\ Raised("goto") => (Count("screenshot") = 0 /\ writes = 0)

\* C5 witness: navigation succeeded, the wait failed, one screenshot call
\* wrote the artifact once.
C5_Witness ==
    /\ pc = "done"
    /\ Succeeded("goto")
    /\ Raised("wait")
    /\ Count("screenshot") = 1
    /\ writes = 1
    /\ OutputPath \in files

\* C6: goto, wait_for_selector and screenshot are each invoked at most once
\* per run, and a navigation failure (goto raising a library error) is
\* printed as one "Error: <description>" line by the outer handler, is no
\* longer in flight when the finally clause starts (so run() returns unless
\* the cleanup itself raises), and is not re-attempted.
C6_NoRetry ==
    /\ \A op \in PageOps : Count(op) <= 1
    /\ \A d \in Descriptions :
          FailedWith("goto", d) =>
             /\ pc = "error" => (pending.msg = d /\ out = <<>>)
             /\ PastTry => out = <<ErrorLine(d)>>
             /\ pc = "close" => pending = NoExc
             /\ (pc = "done" /\ ~Raised("close") /\ ~Raised("exit_with"))
                   => raised = NoExc

\* C6 witness: no server is listening; the run printed the error and exited 0.
C6_Witness ==
    /\ pc = "done"
    /\ FailedWith("goto", "net::ERR_CONNECTION_REFUSED")
    /\ Count("goto") = 1
    /\ out = <<ErrorLine("net::ERR_CONNECTION_REFUSED")>>
    /\ raised = NoExc
    /\ exitCode = 0

\* C7: when launch, new_page, goto, the wait and the screenshot all succeed,
\* the artifact is written and the output is exactly the one line
\* "Screenshot taken".
C7_HappyPath ==
    (/\ PastTry
     /\ \A op \in {"enter", "launch", "new_page", "goto", "wait", "screenshot"} :
           Succeeded(op))
        => /\ out = <<ScreenshotTaken>>
           /\ OutputPath \in files
           /\ writes = 1

\* C7 witness: a run in which every call succeeded has ended.
C7_Witness ==
    /\ pc = "done"
    /\ \A i \in DOMAIN trace : trace[i].result = Ok
    /\ Len(trace) = 8
    /\ out = <<ScreenshotTaken>>
    /\ exitCode = 0

\* C8: however many times the tool runs, at most one artifact exists and it
\* is at the fixed output path, and the lines a run has printed when it ends
\* are determined by the outcomes of that run's own calls, whatever earlier
\* runs did.
C8_RunsIndependent ==
    /\ files \subseteq {OutputPath}
    /\ Cardinality(files) <= 1
    /\ Finished => out = OutputOf(trace)

\* C8 witness: the second run overwrote the artifact the first run wrote,
\* and printed something else than the first run did.
C8_Witness ==
    /\ run = 2
    /\ pc = "done"
    /\ written = 2
    /\ files = {OutputPath}
    /\ prevOut = <<HeadingWarning, ScreenshotTaken>>
    /\ out = <<ScreenshotTaken>>

\* C9: the calls of a run occur in the order enter, launch, new_page, goto,
\* wait, screenshot, close: the wait starts only after goto returned
\* successfully, the screenshot only after the wait has finished, and no
\* page operation follows browser.close().
C9_FixedOrder ==
    /\ \A i, j \in DOMAIN trace : i < j => Rank(trace[i].op) < Rank(trace[j].op)
    /\ \A i \in Calls("wait") :
          \E j \in Calls("goto") : j < i /\ trace[j].result = Ok
    /\ \A i \in Calls("screenshot") : \E j \in Calls("wait") : j < i
    /\ pc = "wait" => Succeeded("goto")
    /\ pc = "screenshot" => Called("wait")
    /\ \A i \in Calls("close") :
          \A j \in DOMAIN trace : j > i => trace[j].op \notin PageOps
    /\ browser = "closed" => pc \notin {"goto", "wait", "screenshot"}

\* C9 witness: a complete run, the wait having failed before the screenshot.
C9_Witness ==
    /\ pc = "done"
    /\ Len(trace) = 8
    /\ trace[4].op = "goto"
    /\ trace[5].op = "wait"
    /\ trace[5].result # Ok
    /\ trace[6].op = "screenshot"
    /\ trace[7].op = "close"
    /\ browser = "closed"

\* C10: "Screenshot taken" and an "Error:" line are never both printed;
\* once the try statement is left "Screenshot taken" has been printed iff the
\* screenshot call returned; at most one "Error:" line is printed; and when
\* goto raises neither the wait nor the screenshot is attempted, the output
\* being the "Error:" line alone when goto failed with a library error.
C10_OutputExclusive ==
    /\ ~(Printed(ScreenshotTaken) /\ ErrorCount > 0)
    /\ Printed(ScreenshotTaken) => Succeeded("screenshot")
    /\ PastTry => (Printed(ScreenshotTaken) <=> Succeeded("screenshot"))
    /\ ErrorCount <= 1
    /\ Raised("goto") => (~Called("wait") /\ ~Called("screenshot"))
    /\ (PastTry /\ Failed("goto")) => (Len(out) = 1 /\ out[1] \in ErrorLines)

\* C10 witness: the screenshot failed after a failed wait: an "Error:" line
\* and no "Screenshot taken".
C10_Witness ==
    /\ pc = "done"
    /\ Raised("wait")
    /\ Failed("screenshot")
    /\ ErrorCount = 1
    /\ ~Printed(ScreenshotTaken)

====
